---- MODULE Spec2Model ----
(***************************************************************************)
(* A model of trlm.c: a depth-bounded prefix trie whose traversal drives a *)
(* depth-indexed reservoir (one fixed random matrix per depth), followed   *)
(* by a trainable softmax readout, and the training driver of main().      *)
(*                                                                         *)
(* Every C function is an operator from memory to memory: `m` is a record  *)
(* of the program's globals, the heap of trie nodes and the caller's       *)
(* buffers, and the operator returns the memory after the call.  The       *)
(* actions apply these operators to the variables.                         *)
(***************************************************************************)
EXTENDS Integers, Sequences, FiniteSets, TLC

(***************************************************************************)
(* Program constants.  MAX_DEPTH and OUT_DIM have the values of the        *)
(* source.  RESERVOIR_SIZE (64 in the source), RAND_MAX (2^31-1 in glibc)  *)
(* and MAX_CHILDREN (256 in the source) are scaled down so that matrices,  *)
(* the generator's period and the nodes' child arrays stay small: bytes    *)
(* are 1..MAX_CHILDREN-1, the letters of main()'s strings numbered from 1  *)
(* (a C string holds no 0).                                                *)
(***************************************************************************)
MAX_CHILDREN == 14
MAX_DEPTH == 16
RESERVOIR_SIZE == 2
OUT_DIM == 4
RAND_MAX == 7

(***************************************************************************)
(* Bounds of the model.                                                    *)
(***************************************************************************)
NumSymbols == 2      \* bytes 1..NumSymbols occur in strings (0 terminates)
MaxLen == 2          \* every string over these bytes up to this length
MaxOver == 1         \* long strings: MAX_DEPTH-1 .. MAX_DEPTH+MaxOver bytes
MaxInserts == 2      \* trie_insert calls in a behaviour
MaxCalls == 2        \* reservoir / readout calls in a behaviour
NumSeeds == 2        \* values time(NULL) may seed the generator with
NumPasses == 2       \* forward passes running at once
MaxPassLen == 3      \* longest input of a pass that runs beside another

NULL == 0
Symbols == 1..(MAX_CHILDREN - 1)

(***************************************************************************)
(* float.  A value is a fixed-point integer in units of 1/FP, of magnitude *)
(* at most FLT_MAX; beyond it the value is INF or -INF, and NAN is the     *)
(* result of INF/INF, 0/0 and INF-INF, as in IEEE 754.  The format is      *)
(* narrower than binary32 (expf overflows above ln 2000, not above 88.7)   *)
(* but rounds, saturates and propagates NaN in the same way.               *)
(***************************************************************************)
FP == 1000
FLT_MAX == 2000000
INF == FLT_MAX + 1
NAN == FLT_MAX + 2

IsNaN(a) == a = NAN
IsInf(a) == a = INF \/ a = -INF
IsFinite(a) == ~IsNaN(a) /\ ~IsInf(a)

Abs(a) == IF a < 0 THEN -a ELSE a
Sgn(a) == IF a < 0 THEN -1 ELSE IF a > 0 THEN 1 ELSE 0
\* C's division of magnitudes: truncation toward zero
Trunc(a, b) == Sgn(a) * Sgn(b) * (Abs(a) \div Abs(b))
Fin(v) == IF v > FLT_MAX THEN INF ELSE IF v < -FLT_MAX THEN -INF ELSE v

FNeg(a) == IF IsNaN(a) THEN NAN ELSE -a

FAdd(a, b) ==
    IF IsNaN(a) \/ IsNaN(b) THEN NAN
    ELSE IF IsInf(a) /\ IsInf(b) THEN (IF a = b THEN a ELSE NAN)
    ELSE IF IsInf(a) THEN a
    ELSE IF IsInf(b) THEN b
    ELSE Fin(a + b)

FSub(a, b) == FAdd(a, FNeg(b))

FMul(a, b) ==
    IF IsNaN(a) \/ IsNaN(b) THEN NAN
    ELSE IF IsInf(a) \/ IsInf(b)
         THEN (IF a = 0 \/ b = 0 THEN NAN ELSE Sgn(a) * Sgn(b) * INF)
    ELSE IF a = 0 \/ b = 0 THEN 0
    ELSE IF Abs(b) > ((FLT_MAX * FP) \div Abs(a)) THEN Sgn(a) * Sgn(b) * INF
    ELSE Fin(Trunc(a * b, FP))

FDiv(a, b) ==
    IF IsNaN(a) \/ IsNaN(b) THEN NAN
    ELSE IF IsInf(a) THEN (IF IsInf(b) THEN NAN
                           ELSE IF b < 0 THEN -a ELSE a)
    ELSE IF IsInf(b) THEN 0
    ELSE IF b = 0 THEN (IF a = 0 THEN NAN ELSE Sgn(a) * INF)
    ELSE Fin(Trunc(a * FP, b))

FAbs(a) == IF IsNaN(a) THEN NAN ELSE Abs(a)
\* a > b of C: false when either is NaN
FGt(a, b) == ~IsNaN(a) /\ ~IsNaN(b) /\ a > b

\* the int-to-float conversion (float)n
ToFloat(n) == Fin(n * FP)


(***************************************************************************)
(* expf of <math.h>: range reduction by ln 2 and a degree-4 polynomial on  *)
(* the remainder; the result overflows to INF and underflows to 0.         *)
(***************************************************************************)
LN2 == 693
MAX_EXP == 11        \* 2^MAX_EXP * FP is the first power of two above FLT_MAX

RECURSIVE Pow2(_)
Pow2(k) == IF k = 0 THEN 1 ELSE 2 * Pow2(k - 1)

expf(x) ==
    IF IsNaN(x) THEN NAN
    ELSE IF x = INF THEN INF
    ELSE IF x = -INF THEN 0
    ELSE LET k  == x \div LN2
             r  == x - k * LN2
             r2 == (r * r) \div FP
             r3 == (r2 * r) \div FP
             r4 == (r3 * r) \div FP
             p  == FP + r + (r2 \div 2) + (r3 \div 6) + (r4 \div 24)
         IN  IF k >= MAX_EXP THEN INF
             ELSE IF k < -MAX_EXP THEN 0
             ELSE IF k >= 0 THEN Fin(p * Pow2(k))
             ELSE p \div Pow2(-k)

\* activate_tanh: (e^x - e^-x) / (e^x + e^-x)
activate_tanh(x) ==
    LET e1 == expf(x)
        e2 == expf(FNeg(x))
    IN  FDiv(FSub(e1, e2), FAdd(e1, e2))

(***************************************************************************)
(* srand/rand of <stdlib.h>: a linear congruential generator over          *)
(* 0..RAND_MAX; the generator's state is the global rand_state.            *)
(***************************************************************************)
srand(seed) == seed % (RAND_MAX + 1)
rand(rs) == (5 * rs + 3) % (RAND_MAX + 1)

\* rand_float: (float)rand() / (float)(RAND_MAX/2) - 1.0f; returns the value
\* and the generator's new state
rand_float(rs) ==
    LET r == rand(rs)
    IN  [val |-> FSub(FDiv(ToFloat(r), ToFloat(RAND_MAX \div 2)), ToFloat(1)),
         rs  |-> r]

(***************************************************************************)
(* matvec: out = W * in, W a flat RESERVOIR_SIZE x RESERVOIR_SIZE array.   *)
(***************************************************************************)
Idx == 0..(RESERVOIR_SIZE - 1)
MatIdx == 0..(RESERVOIR_SIZE * RESERVOIR_SIZE - 1)

RECURSIVE Row(_, _, _, _, _)
Row(W, in, i, j, sum) ==
    IF j < RESERVOIR_SIZE
    THEN Row(W, in, i, j + 1, FAdd(sum, FMul(W[i * RESERVOIR_SIZE + j], in[j])))
    ELSE sum

matvec(W, in) == [i \in Idx |-> Row(W, in, i, 0, 0)]

(***************************************************************************)
(* The trie.  The heap is the sequence of the nodes calloc has returned,   *)
(* a node's address its index; NULL is 0.                                  *)
(***************************************************************************)
\* a node whose depth is left as calloc zeroed it
create_trie_node_DepthLeftZero(depth) ==
    [children |-> [c \in Symbols |-> NULL], depth |-> 0, is_leaf |-> 0]

create_trie_node(depth) ==
    [children |-> [c \in Symbols |-> NULL], depth |-> depth, is_leaf |-> 0]

root == 1

\* the loop of trie_insert with the bound i <= MAX_DEPTH
RECURSIVE InsertLoop_OneLevelMore(_, _, _, _)
InsertLoop_OneLevelMore(hp, cur, str, i) ==
    IF i < Len(str) /\ i <= MAX_DEPTH
    THEN LET c   == str[i + 1]
             new == Len(hp) + 1
             hp1 == IF hp[cur].children[c] = NULL
                    THEN Append([hp EXCEPT ![cur].children[c] = new],
                                [children |-> [d \in Symbols |-> NULL],
                                 depth |-> hp[cur].depth + 1, is_leaf |-> 0])
                    ELSE hp
         IN  InsertLoop_OneLevelMore(hp1, hp1[cur].children[c], str, i + 1)
    ELSE [heap |-> hp, cur |-> cur, i |-> i]

\* the loop of trie_insert from iteration i at node cur; returns the heap,
\* the node reached and the iterations made
RECURSIVE InsertLoop(_, _, _, _)
InsertLoop(hp, cur, str, i) ==
    IF i < Len(str) /\ i < MAX_DEPTH
    THEN LET c   == str[i + 1]
             new == Len(hp) + 1
             hp1 == IF hp[cur].children[c] = NULL
                    THEN Append([hp EXCEPT ![cur].children[c] = new],
                                create_trie_node(hp[cur].depth + 1))
                    ELSE hp
         IN  InsertLoop(hp1, hp1[cur].children[c], str, i + 1)
    ELSE [heap |-> hp, cur |-> cur, i |-> i]

\* trie_insert marking the node reached only when the call created it
trie_insert_MarksNewOnly(m, rt, str) ==
    LET r == InsertLoop(m.heap, rt, str, 0)
    IN  [m EXCEPT !.heap = IF Len(r.heap) > Len(m.heap)
                           THEN [r.heap EXCEPT ![r.cur].is_leaf = 1]
                           ELSE r.heap]

trie_insert(m, rt, str) ==
    LET r == InsertLoop(m.heap, rt, str, 0)
    IN  [m EXCEPT !.heap = [r.heap EXCEPT ![r.cur].is_leaf = 1]]

(***************************************************************************)
(* The reservoir weight bank: reservoir_weights is the sequence of the     *)
(* matrices init_reservoir_weights has allocated (empty: the NULL of the   *)
(* declaration); the matrix of depth l is reservoir_weights[l + 1].        *)
(***************************************************************************)
ALPHA == 850         \* 0.85f
RHO == 900           \* 0.9f
SMALL == 10          \* 0.01f, the scale of the noise and of the first readout
EPS == 0             \* 1e-5f, below the format's resolution

\* lines 106-109: fill the matrix with rand_float(), summing the magnitudes
RECURSIVE FillLoop(_, _, _, _)
FillLoop(W, i, rs, norm_sum) ==
    IF i < RESERVOIR_SIZE * RESERVOIR_SIZE
    THEN LET r == rand_float(rs)
         IN  FillLoop([W EXCEPT ![i] = r.val], i + 1, r.rs,
                      FAdd(norm_sum, FAbs(r.val)))
    ELSE [W |-> W, rs |-> rs, norm_sum |-> norm_sum]

\* lines 102-116: one matrix per depth, scaled by RHO / mean(|entry|)
RECURSIVE InitLoop(_, _, _, _)
InitLoop(bank, l, depth_count, rs) ==
    IF l < depth_count
    THEN LET f       == FillLoop([k \in MatIdx |-> 0], 0, rs, 0)
             avg_abs == FDiv(f.norm_sum, ToFloat(RESERVOIR_SIZE * RESERVOIR_SIZE))
             scale   == IF FGt(avg_abs, EPS) THEN FDiv(RHO, avg_abs) ELSE ToFloat(1)
             Wl      == [k \in MatIdx |-> FMul(f.W[k], scale)]
         IN  InitLoop(Append(bank, Wl), l + 1, depth_count, f.rs)
    ELSE [bank |-> bank, rs |-> rs]

\* time is the value time(NULL) returns
init_reservoir_weights(m, depth_count, time) ==
    LET r == InitLoop(<< >>, 0, depth_count, srand(time))
    IN  [m EXCEPT !.reservoir_weights = r.bank, !.rand_state = r.rs]

(***************************************************************************)
(* reservoir_update, in its three loops.  tmp is the function's static     *)
(* buffer: one array for the whole program.                                *)
(***************************************************************************)
ru_matvec(m, Wl) == [m EXCEPT !.tmp = matvec(Wl, m.h_state)]

RECURSIVE NoiseLoop(_, _, _)
NoiseLoop(tmp, i, rs) ==
    IF i < RESERVOIR_SIZE
    THEN LET r == rand_float(rs)
         IN  NoiseLoop([tmp EXCEPT ![i] = FAdd(tmp[i], FMul(SMALL, r.val))],
                       i + 1, r.rs)
    ELSE [tmp |-> tmp, rs |-> rs]

ru_noise(m) ==
    LET r == NoiseLoop(m.tmp, 0, m.rand_state)
    IN  [m EXCEPT !.tmp = r.tmp, !.rand_state = r.rs]

ru_activate(m) ==
    [m EXCEPT !.h_state = [i \in Idx |-> FMul(ALPHA, activate_tanh(m.tmp[i]))]]

reservoir_update(m, Wl) == ru_activate(ru_noise(ru_matvec(m, Wl)))

(***************************************************************************)
(* trie_reservoir_forward.  calls logs the index l of every call of line   *)
(* 157; a read of reservoir_weights[l] outside the allocated bank is       *)
(* recorded in oob, and what it reads is indeterminate (NaN here).         *)
(***************************************************************************)
WeightAt(bank, l) ==
    IF l >= 0 /\ l < Len(bank) THEN bank[l + 1] ELSE [k \in MatIdx |-> NAN]

\* the traversal passing over a byte with no child instead of stopping
RECURSIVE ForwardLoop_SkipsMissing(_, _, _, _)
ForwardLoop_SkipsMissing(m, cur, input, i) ==
    IF i < Len(input) /\ i < MAX_DEPTH
    THEN LET c == input[i + 1]
         IN  IF m.heap[cur].children[c] = NULL
             THEN ForwardLoop_SkipsMissing(m, cur, input, i + 1)
             ELSE LET l  == m.heap[cur].depth
                      m0 == [m EXCEPT !.calls = Append(@, l),
                                      !.oob = @ \/ ~(l >= 0 /\ l < Len(m.reservoir_weights))]
                      m1 == reservoir_update(m0, WeightAt(m.reservoir_weights, l))
                  IN  ForwardLoop_SkipsMissing(m1, m1.heap[cur].children[c], input, i + 1)
    ELSE m

\* the traversal indexing the bank by the depth of the child it descends to
RECURSIVE ForwardLoop_IndexAfterDescent(_, _, _, _)
ForwardLoop_IndexAfterDescent(m, cur, input, i) ==
    IF i < Len(input) /\ i < MAX_DEPTH
    THEN LET c == input[i + 1]
         IN  IF m.heap[cur].children[c] = NULL
             THEN m
             ELSE LET l  == m.heap[m.heap[cur].children[c]].depth
                      m0 == [m EXCEPT !.calls = Append(@, l),
                                      !.oob = @ \/ ~(l >= 0 /\ l < Len(m.reservoir_weights))]
                      m1 == reservoir_update(m0, WeightAt(m.reservoir_weights, l))
                  IN  ForwardLoop_IndexAfterDescent(m1, m1.heap[cur].children[c], input, i + 1)
    ELSE m

\* the traversal creating the child it misses (the other policy line 152 names)
RECURSIVE ForwardLoop_CreatesMissing(_, _, _, _)
ForwardLoop_CreatesMissing(m, cur, input, i) ==
    IF i < Len(input) /\ i < MAX_DEPTH
    THEN LET c  == input[i + 1]
             mc == IF m.heap[cur].children[c] = NULL
                   THEN [m EXCEPT !.heap =
                            Append([m.heap EXCEPT ![cur].children[c] = Len(m.heap) + 1],
                                   create_trie_node(m.heap[cur].depth + 1))]
                   ELSE m
             l  == mc.heap[cur].depth
             m0 == [mc EXCEPT !.calls = Append(@, l),
                              !.oob = @ \/ ~(l >= 0 /\ l < Len(m.reservoir_weights))]
             m1 == reservoir_update(m0, WeightAt(m.reservoir_weights, l))
         IN  ForwardLoop_CreatesMissing(m1, m1.heap[cur].children[c], input, i + 1)
    ELSE m

RECURSIVE ForwardLoop(_, _, _, _)
ForwardLoop(m, cur, input, i) ==
    IF i < Len(input) /\ i < MAX_DEPTH
    THEN LET c == input[i + 1]
         IN  IF m.heap[cur].children[c] = NULL
             THEN m
             ELSE LET l  == m.heap[cur].depth
                      m0 == [m EXCEPT !.calls = Append(@, l),
                                      !.oob = @ \/ ~(l >= 0 /\ l < Len(m.reservoir_weights))]
                      m1 == reservoir_update(m0, WeightAt(m.reservoir_weights, l))
                  IN  ForwardLoop(m1, m1.heap[cur].children[c], input, i + 1)
    ELSE m

trie_reservoir_forward(m, rt, input) == ForwardLoop(m, rt, input, 0)

(***************************************************************************)
(* The readout: readout_weights[i][j], i < OUT_DIM, j < RESERVOIR_SIZE.    *)
(***************************************************************************)
Out == 0..(OUT_DIM - 1)

RECURSIVE InitReadoutLoop(_, _, _)
InitReadoutLoop(rw, k, rs) ==
    IF k < OUT_DIM * RESERVOIR_SIZE
    THEN LET r == rand_float(rs)
             i == k \div RESERVOIR_SIZE
             j == k % RESERVOIR_SIZE
         IN  InitReadoutLoop([rw EXCEPT ![i][j] = FMul(SMALL, r.val)], k + 1, r.rs)
    ELSE [rw |-> rw, rs |-> rs]

init_readout(m) ==
    LET r == InitReadoutLoop(m.readout_weights, 0, m.rand_state)
    IN  [m EXCEPT !.readout_weights = r.rw, !.rand_state = r.rs]

\* the logit of unit i (lines 187-190)
RECURSIVE Logit(_, _, _, _, _)
Logit(rw, h, i, j, z) ==
    IF j < RESERVOIR_SIZE
    THEN Logit(rw, h, i, j + 1, FAdd(z, FMul(rw[i][j], h[j])))
    ELSE z

\* lines 186-194: the exponentials and their sum, in order
RECURSIVE SumExp(_, _, _)
SumExp(e, i, sum_exp) ==
    IF i < OUT_DIM THEN SumExp(e, i + 1, FAdd(sum_exp, e[i])) ELSE sum_exp

\* lines 186-192: out_probs[i] = expf(z_i)
exps(rw, h) == [i \in Out |-> expf(Logit(rw, h, i, 0, 0))]

\* the normalisation loop ending one unit early
softmax_LastNotNormalised(rw, h) ==
    LET e       == exps(rw, h)
        sum_exp == SumExp(e, 0, 0)
    IN  [i \in Out |-> IF i < OUT_DIM - 1 THEN FDiv(e[i], sum_exp) ELSE e[i]]

\* readout_forward on the weights rw and the state h: the probabilities
softmax(rw, h) ==
    LET e       == exps(rw, h)
        sum_exp == SumExp(e, 0, 0)
    IN  [i \in Out |-> FDiv(e[i], sum_exp)]

readout_forward(m) ==
    [m EXCEPT !.out_probs = softmax(m.readout_weights, m.h_state)]

\* a train step that also descends the gradient into the first reservoir matrix
readout_train_TrainsReservoir(m, gold_index, lr) ==
    LET probs == softmax(m.readout_weights, m.h_state)
        grad(i) == IF i = gold_index THEN FSub(probs[i], ToFloat(1)) ELSE probs[i]
    IN  [m EXCEPT !.readout_weights =
            [i \in Out |-> [j \in Idx |->
                FSub(m.readout_weights[i][j],
                     FMul(FMul(lr, grad(i)), m.h_state[j]))]],
                  !.reservoir_weights =
            IF @ = << >> THEN @
            ELSE [@ EXCEPT ![1] = [k \in MatIdx |->
                FSub(@[k], FMul(FMul(lr, grad(0)), m.h_state[k % RESERVOIR_SIZE]))]]]

readout_train(m, gold_index, lr) ==
    LET probs == softmax(m.readout_weights, m.h_state)
        grad(i) == IF i = gold_index THEN FSub(probs[i], ToFloat(1)) ELSE probs[i]
    IN  [m EXCEPT !.readout_weights =
            [i \in Out |-> [j \in Idx |->
                FSub(m.readout_weights[i][j],
                     FMul(FMul(lr, grad(i)), m.h_state[j]))]]]

(***************************************************************************)
(* The state: the heap and the globals of trlm.c, the caller's buffers     *)
(* h_state and out_probs, and what the caller has observed.                *)
(***************************************************************************)
VARIABLES
    heap,               \* the TrieNode objects; heap[root] is the root
    reservoir_weights,  \* static float** reservoir_weights
    readout_weights,    \* static float readout_weights[OUT_DIM][RESERVOIR_SIZE]
    tmp,                \* static float tmp[RESERVOIR_SIZE] of reservoir_update
    rand_state,         \* the state of rand()
    h_state,            \* the caller's state buffer
    out_probs,          \* the caller's output buffer
    calls,              \* the indices l of the updates of the last forward pass
    oob,                \* the bank has been read out of its bounds
    last,               \* the last call: its name and arguments
    inserted,           \* the strings trie_insert has been called with
    ncalls,             \* reservoir / readout calls made
    pc, epoch, learning_rate,   \* main(): position, loop counter, local
    nforward, ntrain,   \* main(): forward passes and train steps made
    thr                 \* the concurrent forward passes

vars == << heap, reservoir_weights, readout_weights, tmp, rand_state, h_state,
           out_probs, calls, oob, last, inserted, ncalls, pc, epoch,
           learning_rate, nforward, ntrain, thr >>

memvars == << heap, reservoir_weights, readout_weights, tmp, rand_state,
              h_state, out_probs, calls, oob >>
mainvars == << pc, epoch, learning_rate, nforward, ntrain >>

Mem == [heap |-> heap, reservoir_weights |-> reservoir_weights,
        readout_weights |-> readout_weights, tmp |-> tmp,
        rand_state |-> rand_state, h_state |-> h_state,
        out_probs |-> out_probs, calls |-> calls, oob |-> oob]

Store(m) ==
    /\ heap' = m.heap
    /\ reservoir_weights' = m.reservoir_weights
    /\ readout_weights' = m.readout_weights
    /\ tmp' = m.tmp
    /\ rand_state' = m.rand_state
    /\ h_state' = m.h_state
    /\ out_probs' = m.out_probs
    /\ calls' = m.calls
    /\ oob' = m.oob

Zeros == [i \in Idx |-> 0]
\* memset(h_state, 0, sizeof(h_state))
memset(m) == [m EXCEPT !.h_state = Zeros]

\* the memory when main() starts: statics zeroed, the root created (line 225)
Mem0 == [heap |-> << create_trie_node(0) >>,
         reservoir_weights |-> << >>,
         readout_weights |-> [i \in Out |-> Zeros],
         tmp |-> Zeros,
         rand_state |-> 1,
         h_state |-> Zeros,
         out_probs |-> [i \in Out |-> 0],
         calls |-> << >>,
         oob |-> FALSE]

NoCall == [op |-> "none", str |-> << >>, arg |-> 0, lr |-> 0]

InitMem ==
    /\ heap = Mem0.heap
    /\ reservoir_weights = Mem0.reservoir_weights
    /\ readout_weights = Mem0.readout_weights
    /\ tmp = Mem0.tmp
    /\ rand_state = Mem0.rand_state
    /\ h_state = Mem0.h_state
    /\ out_probs = Mem0.out_probs
    /\ calls = Mem0.calls
    /\ oob = Mem0.oob

(***************************************************************************)
(* Spec: a caller of the functions of trlm.c, in any order.                *)
(***************************************************************************)
RECURSIVE Rep(_, _)
Rep(c, n) == IF n = 0 THEN << >> ELSE Append(Rep(c, n - 1), c)

RECURSIVE StringsOfLen(_)
StringsOfLen(n) ==
    IF n = 0 THEN { << >> }
    ELSE { Append(s, c) : s \in StringsOfLen(n - 1), c \in 1..NumSymbols }

ShortStrings == UNION { StringsOfLen(n) : n \in 0..MaxLen }
LongStrings == { Rep(1, n) : n \in (MAX_DEPTH - 1)..(MAX_DEPTH + MaxOver) }
Strings == ShortStrings \cup LongStrings
\* the strings of the callers of Spec: the short ones and the longest
ApiStrings == ShortStrings \cup { Rep(1, MAX_DEPTH + MaxOver) }

LearningRates == { SMALL, FP }      \* 0.01f and 1.0f
UpdateDepths == { 0, MAX_DEPTH - 1 } \* the matrices of the direct updates

Init ==
    /\ InitMem
    /\ last = NoCall
    /\ inserted = {}
    /\ ncalls = 0
    /\ pc = [at |-> "api", ex |-> 0] /\ epoch = 0 /\ learning_rate = 0
    /\ nforward = 0 /\ ntrain = 0
    /\ thr = << >>

TrieInsert(s) ==
    /\ Cardinality(inserted) < MaxInserts \/ s \in inserted
    /\ Store(trie_insert(Mem, root, s))
    /\ last' = [op |-> "insert", str |-> s, arg |-> 0, lr |-> 0]
    /\ inserted' = inserted \cup {s}
    /\ UNCHANGED << ncalls, mainvars, thr >>

InitReservoirWeights(t) ==
    /\ reservoir_weights = << >>
    /\ Store(init_reservoir_weights(Mem, MAX_DEPTH, t))
    /\ last' = [op |-> "init_reservoir_weights", str |-> << >>, arg |-> t, lr |-> 0]
    /\ UNCHANGED << inserted, ncalls, mainvars, thr >>

InitReadout ==
    /\ ncalls < MaxCalls
    /\ Store(init_readout(Mem))
    /\ last' = [op |-> "init_readout", str |-> << >>, arg |-> 0, lr |-> 0]
    /\ ncalls' = ncalls + 1
    /\ UNCHANGED << inserted, mainvars, thr >>

\* the caller zeroes its buffer, then runs the forward pass (lines 250-251)
Forward(s) ==
    /\ reservoir_weights # << >>
    /\ ncalls < MaxCalls
    /\ Store(trie_reservoir_forward([memset(Mem) EXCEPT !.calls = << >>], root, s))
    /\ last' = [op |-> "forward", str |-> s, arg |-> 0, lr |-> 0]
    /\ ncalls' = ncalls + 1
    /\ UNCHANGED << inserted, mainvars, thr >>

ReservoirUpdate(l) ==
    /\ ncalls < MaxCalls
    /\ l < Len(reservoir_weights)
    /\ Store(reservoir_update(Mem, reservoir_weights[l + 1]))
    /\ last' = [op |-> "reservoir_update", str |-> << >>, arg |-> l, lr |-> 0]
    /\ ncalls' = ncalls + 1
    /\ UNCHANGED << inserted, mainvars, thr >>

ReadoutForward ==
    /\ ncalls < MaxCalls
    /\ Store(readout_forward(Mem))
    /\ last' = [op |-> "readout_forward", str |-> << >>, arg |-> 0, lr |-> 0]
    /\ ncalls' = ncalls + 1
    /\ UNCHANGED << inserted, mainvars, thr >>

ReadoutTrain(g, lr) ==
    /\ ncalls < MaxCalls
    /\ Store(readout_train(Mem, g, lr))
    /\ last' = [op |-> "readout_train", str |-> << >>, arg |-> g, lr |-> lr]
    /\ ncalls' = ncalls + 1
    /\ UNCHANGED << inserted, mainvars, thr >>

Next ==
    \/ \E s \in ApiStrings : TrieInsert(s)
    \/ \E t \in 0..(NumSeeds - 1) : InitReservoirWeights(t)
    \/ InitReadout
    \/ \E s \in ApiStrings : Forward(s)
    \/ \E l \in UpdateDepths : ReservoirUpdate(l)
    \/ ReadoutForward
    \/ \E g \in Out, lr \in LearningRates : ReadoutTrain(g, lr)

Spec == Init /\ [][Next]_vars

(***************************************************************************)
(* SpecTrie: the construction of the trie alone (lines 225-230, with any   *)
(* strings).                                                               *)
(***************************************************************************)
NextTrie == \E s \in Strings : TrieInsert(s)

SpecTrie == Init /\ [][NextTrie]_vars

(***************************************************************************)
(* SpecMain: main(), statement by statement.  pc.at is the statement about *)
(* to run and pc.ex the string it is about; the letters of the strings are *)
(* numbered h=1 e=2 l=3 o=4 p=5 i=6 u=7 m=8 c=9 a=10 t=11 d=12 g=13.       *)
(***************************************************************************)
EPOCHS == 100
DECAY_EVERY == 20
LEARNING_RATE == 10  \* 0.01f
DECAY == 900         \* 0.9f

hello == << 1, 2, 3, 3, 4 >>
help == << 1, 2, 3, 5 >>
helium == << 1, 2, 3, 6, 7, 8 >>
cat == << 9, 10, 11 >>
dog == << 12, 4, 13 >>

\* lines 226-230
Vocabulary == << hello, help, helium, cat, dog >>
\* lines 251-267: the strings trained on and their gold_index
Examples == << [str |-> hello, gold |-> 0], [str |-> cat, gold |-> 1],
               [str |-> dog, gold |-> 2], [str |-> help, gold |-> 3] >>

\* line 270, with the condition at every multiple of 20
decay_due_AtMultiples(e) == e % DECAY_EVERY = 0

\* line 270
decay_due(e) == e % DECAY_EVERY = DECAY_EVERY - 1

\* the statement after the one at pc: the control flow of main()
NextPc ==
    CASE pc.at = "insert" ->
            IF pc.ex < Len(Vocabulary) THEN [at |-> "insert", ex |-> pc.ex + 1]
            ELSE [at |-> "init_reservoir_weights", ex |-> 0]
      [] pc.at = "init_reservoir_weights" -> [at |-> "init_readout", ex |-> 0]
      [] pc.at = "init_readout" ->
            IF 0 < EPOCHS THEN [at |-> "memset", ex |-> 1]
            ELSE [at |-> "predict", ex |-> 0]
      [] pc.at = "memset" -> [pc EXCEPT !.at = "forward"]
      [] pc.at = "forward" -> [pc EXCEPT !.at = "train"]
      [] pc.at = "train" ->
            IF pc.ex < Len(Examples) THEN [at |-> "memset", ex |-> pc.ex + 1]
            ELSE [at |-> "decay", ex |-> 0]
      [] pc.at = "decay" ->
            IF epoch + 1 < EPOCHS THEN [at |-> "memset", ex |-> 1]
            ELSE [at |-> "predict", ex |-> 0]
      [] pc.at = "predict" -> [at |-> "done", ex |-> 0]
      [] OTHER -> pc

InitMain ==
    /\ InitMem
    /\ last = NoCall
    /\ inserted = {}
    /\ ncalls = 0
    /\ pc = [at |-> "insert", ex |-> 1] /\ epoch = 0 /\ learning_rate = 0
    /\ nforward = 0 /\ ntrain = 0
    /\ thr = << >>

\* lines 226-230
MainInsert ==
    /\ pc.at = "insert"
    /\ \E m \in { trie_insert(Mem, root, Vocabulary[pc.ex]) } : Store(m)
    /\ last' = [op |-> "insert", str |-> Vocabulary[pc.ex], arg |-> 0, lr |-> 0]
    /\ inserted' = inserted \cup { Vocabulary[pc.ex] }
    /\ pc' = NextPc
    /\ UNCHANGED << ncalls, epoch, learning_rate, nforward, ntrain, thr >>

\* line 234
MainInitReservoirWeights(t) ==
    /\ pc.at = "init_reservoir_weights"
    /\ \E m \in { init_reservoir_weights(Mem, MAX_DEPTH, t) } : Store(m)
    /\ last' = [op |-> "init_reservoir_weights", str |-> << >>, arg |-> t, lr |-> 0]
    /\ pc' = NextPc
    /\ UNCHANGED << inserted, ncalls, epoch, learning_rate, nforward, ntrain, thr >>

\* lines 237-247: init_readout(), then learning_rate and epoch are set
MainInitReadout ==
    /\ pc.at = "init_readout"
    /\ \E m \in { init_readout(Mem) } : Store(m)
    /\ last' = [op |-> "init_readout", str |-> << >>, arg |-> 0, lr |-> 0]
    /\ learning_rate' = LEARNING_RATE
    /\ epoch' = 0
    /\ pc' = NextPc
    /\ UNCHANGED << inserted, ncalls, nforward, ntrain, thr >>

\* lines 250, 255, 260, 265
MainMemset ==
    /\ pc.at = "memset"
    /\ \E m \in { memset(Mem) } : Store(m)
    /\ last' = [op |-> "memset", str |-> << >>, arg |-> 0, lr |-> 0]
    /\ pc' = NextPc
    /\ UNCHANGED << inserted, ncalls, epoch, learning_rate, nforward, ntrain, thr >>

\* lines 251, 256, 261, 266
MainForward ==
    /\ pc.at = "forward"
    /\ \E m \in { trie_reservoir_forward([Mem EXCEPT !.calls = << >>], root,
                                         Examples[pc.ex].str) } : Store(m)
    /\ last' = [op |-> "forward", str |-> Examples[pc.ex].str, arg |-> 0, lr |-> 0]
    /\ nforward' = nforward + 1
    /\ pc' = NextPc
    /\ UNCHANGED << inserted, ncalls, epoch, learning_rate, ntrain, thr >>

\* lines 252, 257, 262, 267
MainTrain ==
    /\ pc.at = "train"
    /\ \E m \in { readout_train(Mem, Examples[pc.ex].gold, learning_rate) } : Store(m)
    /\ last' = [op |-> "readout_train", str |-> << >>,
                arg |-> Examples[pc.ex].gold, lr |-> learning_rate]
    /\ ntrain' = ntrain + 1
    /\ pc' = NextPc
    /\ UNCHANGED << inserted, ncalls, epoch, learning_rate, nforward, thr >>

\* lines 270-272 and the loop's epoch++ and test (line 247)
MainDecay ==
    /\ pc.at = "decay"
    /\ learning_rate' = IF decay_due(epoch) THEN FMul(learning_rate, DECAY)
                        ELSE learning_rate
    /\ epoch' = epoch + 1
    /\ pc' = NextPc
    /\ last' = [op |-> "decay", str |-> << >>, arg |-> epoch, lr |-> learning_rate']
    /\ UNCHANGED << memvars, inserted, ncalls, nforward, ntrain, thr >>

\* lines 276-289: the prediction for "hello"
MainPredict ==
    /\ pc.at = "predict"
    /\ \E m \in { readout_forward(trie_reservoir_forward(
                      [memset(Mem) EXCEPT !.calls = << >>], root, hello)) } : Store(m)
    /\ last' = [op |-> "readout_forward", str |-> hello, arg |-> 0, lr |-> 0]
    /\ nforward' = nforward + 1
    /\ pc' = NextPc
    /\ UNCHANGED << inserted, ncalls, epoch, learning_rate, ntrain, thr >>

NextMain ==
    \/ MainInsert
    \/ \E t \in 0..(NumSeeds - 1) : MainInitReservoirWeights(t)
    \/ MainInitReadout
    \/ MainMemset
    \/ MainForward
    \/ MainTrain
    \/ MainDecay
    \/ MainPredict

\* main() is the only thread and none of its statements blocks: while it
\* has not returned, the statement at pc runs and control moves on
Advance == pc.at # "done" /\ pc' = NextPc

SpecMain == InitMain /\ [][NextMain]_vars /\ WF_pc(Advance)

(***************************************************************************)
(* SpecSoftmax: readout_forward called on any state vector and any readout *)
(* weights, here the vectors and matrices over a few magnitudes.           *)
(***************************************************************************)
HValues == { -ALPHA, 0, ALPHA }
WValues == { -(10 * FP), FP, 10 * FP }

InitSoftmax ==
    /\ heap = Mem0.heap
    /\ reservoir_weights = Mem0.reservoir_weights
    /\ readout_weights \in [Out -> [Idx -> WValues]]
    /\ tmp = Mem0.tmp
    /\ rand_state = Mem0.rand_state
    /\ h_state \in [Idx -> HValues]
    /\ out_probs = Mem0.out_probs
    /\ calls = Mem0.calls
    /\ oob = Mem0.oob
    /\ last = NoCall
    /\ inserted = {}
    /\ ncalls = MaxCalls - 1
    /\ pc = [at |-> "api", ex |-> 0] /\ epoch = 0 /\ learning_rate = 0
    /\ nforward = 0 /\ ntrain = 0
    /\ thr = << >>

SpecSoftmax == InitSoftmax /\ [][ReadoutForward]_vars

(***************************************************************************)
(* SpecConc: forward passes over main()'s trie run at once, one thread     *)
(* each.  A pass has its own zeroed state buffer h and its own position rs *)
(* in the frozen noise sequence; the heap and the weight bank are shared   *)
(* and only read.  A thread is preempted between the loops of              *)
(* reservoir_update, whose buffer tmp is static and so shared as well.     *)
(***************************************************************************)
Passes == 1..NumPasses

RECURSIVE InsertAll(_, _, _)
InsertAll(m, words, k) ==
    IF k <= Len(words) THEN InsertAll(trie_insert(m, root, words[k]), words, k + 1)
    ELSE m

\* the memory after lines 225-237
Trained(t) == init_readout(init_reservoir_weights(InsertAll(Mem0, Vocabulary, 1),
                                                  MAX_DEPTH, t))

\* the training examples of lines 251-267 short enough to run side by side
PassInputs == { Examples[e].str : e \in { k \in 1..Len(Examples) :
                                            Len(Examples[k].str) <= MaxPassLen } }

InitConc ==
    /\ \E t \in 0..(NumSeeds - 1) :
        LET m == Trained(t)
        IN  /\ heap = m.heap
            /\ reservoir_weights = m.reservoir_weights
            /\ readout_weights = m.readout_weights
            /\ tmp = m.tmp
            /\ rand_state = m.rand_state
            /\ h_state = m.h_state
            /\ out_probs = m.out_probs
            /\ calls = m.calls
            /\ oob = m.oob
            /\ thr \in [Passes -> { [input |-> s, cur |-> root, i |-> 0,
                                     at |-> "loop", l |-> 0, h |-> Zeros,
                                     rs |-> m.rand_state] : s \in PassInputs }]
    /\ last = NoCall
    /\ inserted = { Vocabulary[k] : k \in 1..Len(Vocabulary) }
    /\ ncalls = 0
    /\ pc = [at |-> "api", ex |-> 0] /\ epoch = 0 /\ learning_rate = 0
    /\ nforward = 0 /\ ntrain = 0

\* the memory as pass p addresses it: its own buffer and noise position
MemOf(p) == [Mem EXCEPT !.h_state = thr[p].h, !.rand_state = thr[p].rs]

\* lines 149-156: the loop test, the child test and l = cur->depth
PassLoop(p) ==
    /\ thr[p].at = "loop"
    /\ LET t == thr[p]
           go == /\ t.i < Len(t.input) /\ t.i < MAX_DEPTH
                 /\ heap[t.cur].children[t.input[t.i + 1]] # NULL
       IN  thr' = [thr EXCEPT ![p].at = IF go THEN "matvec" ELSE "done",
                              ![p].l = IF go THEN heap[t.cur].depth ELSE t.l]
    /\ UNCHANGED << memvars, last, inserted, ncalls, mainvars >>

\* line 126
PassMatvec(p) ==
    /\ thr[p].at = "matvec"
    /\ tmp' = ru_matvec(MemOf(p), WeightAt(reservoir_weights, thr[p].l)).tmp
    /\ thr' = [thr EXCEPT ![p].at = "noise"]
    /\ UNCHANGED << heap, reservoir_weights, readout_weights, rand_state, h_state,
                    out_probs, calls, oob, last, inserted, ncalls, mainvars >>

\* lines 128-130
PassNoise(p) ==
    /\ thr[p].at = "noise"
    /\ LET m == ru_noise(MemOf(p))
       IN  /\ tmp' = m.tmp
           /\ thr' = [thr EXCEPT ![p].at = "activate", ![p].rs = m.rand_state]
    /\ UNCHANGED << heap, reservoir_weights, readout_weights, rand_state, h_state,
                    out_probs, calls, oob, last, inserted, ncalls, mainvars >>

\* lines 132-135 and 159
PassActivate(p) ==
    /\ thr[p].at = "activate"
    /\ LET t == thr[p]
       IN  thr' = [thr EXCEPT ![p].at = "loop",
                              ![p].h = ru_activate(MemOf(p)).h_state,
                              ![p].cur = heap[t.cur].children[t.input[t.i + 1]],
                              ![p].i = t.i + 1]
    /\ UNCHANGED << memvars, last, inserted, ncalls, mainvars >>

NextConc ==
    \E p \in Passes : PassLoop(p) \/ PassMatvec(p) \/ PassNoise(p) \/ PassActivate(p)

SpecConc == InitConc /\ [][NextConc]_vars

(***************************************************************************)
(* Views of the state used by the properties.                              *)
(***************************************************************************)
Min(a, b) == IF a < b THEN a ELSE b
Take(s, n) == SubSeq(s, 1, n)
\* a string as the trie sees it: its first MAX_DEPTH bytes
Truncated(s) == Take(s, Min(Len(s), MAX_DEPTH))
PrefixesOf(S) == UNION { { Take(s, n) : n \in 0..Len(s) } : s \in S }

\* the pairs << path, node >> of the nodes reachable from node n at path
RECURSIVE Reach(_, _, _)
Reach(hp, n, path) ==
    { << path, n >> } \cup
    UNION { Reach(hp, hp[n].children[c], Append(path, c)) :
            c \in { d \in Symbols : hp[n].children[d] # NULL } }

PathNodes(hp) == Reach(hp, root, << >>)
Paths(hp) == { pn[1] : pn \in PathNodes(hp) }
LeafPaths(hp) == { pn[1] : pn \in { q \in PathNodes(hp) : hp[q[2]].is_leaf = 1 } }
\* the node at a path, NULL when the trie has none
NodeIn(pns, path) ==
    IF \E pn \in pns : pn[1] = path
    THEN (CHOOSE pn \in pns : pn[1] = path)[2]
    ELSE NULL
NodeAt(hp, path) == NodeIn(PathNodes(hp), path)

(***************************************************************************)
(* C2.  Depth bound: a call trie_insert(root, s) makes exactly             *)
(* min(length(s), MAX_DEPTH) iterations, allocates at most MAX_DEPTH nodes *)
(* (none beyond that depth), and leaves is_leaf set on the node at depth   *)
(* min(length(s), MAX_DEPTH) that the first min(length(s), MAX_DEPTH)      *)
(* bytes of s lead to, also when s is longer than MAX_DEPTH.               *)
(***************************************************************************)
C2_Step ==
    last'.op = "insert" =>
        LET s == last'.str
            d == Min(Len(s), MAX_DEPTH)
            n == NodeAt(heap', Take(s, d))
        IN  /\ InsertLoop(heap, root, s, 0).i = d
            /\ Len(heap') - Len(heap) <= MAX_DEPTH
            /\ Len(heap') - Len(heap) <= d
            /\ n # NULL
            /\ n = InsertLoop(heap, root, s, 0).cur
            /\ heap'[n].depth = d
            /\ heap'[n].is_leaf = 1
            /\ \A k \in 1..Len(heap') : heap'[k].depth <= MAX_DEPTH

C2_DepthBound == [][C2_Step]_vars

C2_Witness ==
    /\ last.op = "insert"
    /\ Len(last.str) > MAX_DEPTH
    /\ NodeAt(heap, Take(last.str, MAX_DEPTH)) # NULL
    /\ Len(heap) = MAX_DEPTH + 1

(***************************************************************************)
(* C5.  Trie depth invariant: every populated child has the depth of its   *)
(* parent plus one, every node is reachable from the root and its depth is *)
(* the length of its path, and every depth lies in 0..MAX_DEPTH.           *)
(***************************************************************************)
C5_DepthInvariant ==
    /\ \A n \in 1..Len(heap) :
        /\ heap[n].depth \in 0..MAX_DEPTH
        /\ \A c \in Symbols :
              heap[n].children[c] # NULL =>
                  /\ heap[n].children[c] \in 1..Len(heap)
                  /\ heap[heap[n].children[c]].depth = heap[n].depth + 1
    /\ \A pn \in PathNodes(heap) : heap[pn[2]].depth = Len(pn[1])
    /\ { pn[2] : pn \in PathNodes(heap) } = 1..Len(heap)

C5_Witness ==
    /\ \E n \in 1..Len(heap) : heap[n].depth = MAX_DEPTH
    /\ \E n \in 1..Len(heap) :
          Cardinality({ c \in Symbols : heap[n].children[c] # NULL }) >= 2

(***************************************************************************)
(* C10.  The trie is the prefix set of what was inserted: the paths        *)
(* present are the prefixes of the inserted strings cut to MAX_DEPTH       *)
(* bytes (and the root), the leaves are the cut strings themselves; so     *)
(* the trie depends on the set inserted, not on the order, and inserting   *)
(* a string again changes nothing.                                         *)
(***************************************************************************)
C10_State ==
    /\ Paths(heap) = { << >> } \cup PrefixesOf({ Truncated(s) : s \in inserted })
    /\ LeafPaths(heap) = { Truncated(s) : s \in inserted }

C10_Step == (last'.op = "insert" /\ last'.str \in inserted) => heap' = heap

C10_TrieIsPrefixSet == [](C10_State) /\ [][C10_Step]_vars

C10_Witness ==
    /\ Cardinality(inserted) >= 2
    /\ \E s \in inserted : Len(s) > MAX_DEPTH
    /\ \E s, t \in inserted : s # t /\ Len(s) < Len(t) /\ s = Take(t, Len(s))
    /\ \E p \in Paths(heap) : p # << >> /\ p \notin LeafPaths(heap)

(***************************************************************************)
(* C1.  Early-stop traversal: a forward pass makes exactly k updates, k    *)
(* the length of the longest prefix of the input that is a path of the     *)
(* trie, at most MAX_DEPTH; it ends in the state, the noise generator and  *)
(* the update sequence of the pass over that prefix alone, so the bytes    *)
(* after the first one with no child have no influence.                    *)
(***************************************************************************)
Max(S) == CHOOSE x \in S : \A y \in S : y <= x
MatchLen(hp, s) ==
    LET ps == Paths(hp)
    IN  Max({ n \in 0..Min(Len(s), MAX_DEPTH) : Take(s, n) \in ps })

C1_Step ==
    last'.op = "forward" =>
        LET s    == last'.str
            k    == MatchLen(heap, s)
            only == trie_reservoir_forward([memset(Mem) EXCEPT !.calls = << >>],
                                           root, Take(s, k))
        IN  /\ Len(calls') = k
            /\ calls' = only.calls
            /\ h_state' = only.h_state
            /\ rand_state' = only.rand_state

C1_EarlyStop == [][C1_Step]_vars

C1_Witness ==
    /\ last.op = "forward"
    /\ Len(calls) > 0
    /\ Len(calls) < Len(last.str)
    /\ Len(calls) < MAX_DEPTH
    /\ h_state # Zeros

(***************************************************************************)
(* C3.  Fixed reservoir: once init_reservoir_weights has returned, no call *)
(* changes an entry of a reservoir matrix.                                 *)
(***************************************************************************)
C3_Step == reservoir_weights # << >> => reservoir_weights' = reservoir_weights

C3_FixedReservoir == [][C3_Step]_vars

C3_Witness ==
    /\ reservoir_weights # << >>
    /\ last.op = "readout_train"
    /\ h_state # Zeros
    /\ readout_weights # Mem0.readout_weights

(***************************************************************************)
(* C4.  The i-th update of a forward pass (from 0) uses the matrix of the  *)
(* depth of the node the traversal stands on, which is i and lies in       *)
(* 0..MAX_DEPTH-1: the bank of MAX_DEPTH matrices is never read outside    *)
(* its bounds.                                                             *)
(***************************************************************************)
C4_IndexInBounds ==
    /\ ~oob
    /\ reservoir_weights # << >> => Len(reservoir_weights) = MAX_DEPTH
    /\ \A i \in 1..Len(calls) :
          /\ calls[i] = i - 1
          /\ calls[i] \in 0..(MAX_DEPTH - 1)
          /\ calls[i] < Len(reservoir_weights)
    /\ last.op = "forward" =>
          LET pns == PathNodes(heap)
          IN  \A i \in 1..Len(calls) :
                  calls[i] = heap[NodeIn(pns, Take(last.str, i - 1))].depth

C4_Witness ==
    /\ last.op = "forward"
    /\ Len(last.str) > MAX_DEPTH
    /\ Len(calls) = MAX_DEPTH
    /\ calls[MAX_DEPTH] = MAX_DEPTH - 1

(***************************************************************************)
(* C6.  The trie is read-only in a forward pass: whatever the input, the   *)
(* heap after trie_reservoir_forward is the heap before it.                *)
(***************************************************************************)
C6_Step == last'.op = "forward" => heap' = heap

C6_TrieReadOnly == [][C6_Step]_vars

C6_Witness ==
    /\ last.op = "forward"
    /\ Len(last.str) > 0
    /\ Len(calls) = 0
    /\ inserted # {}

(***************************************************************************)
(* C7.  The training driver: the loop runs EPOCHS epochs and ends, with no *)
(* other way out; an epoch makes one forward pass and one train step for   *)
(* each example; the learning rate is multiplied by 0.9 once after every   *)
(* 20th epoch, so the train steps of epoch e use the first rate decayed    *)
(* e \div 20 times; every forward pass of the loop starts from the zero    *)
(* state.                                                                  *)
(***************************************************************************)
RECURSIVE Decayed(_)
Decayed(k) == IF k = 0 THEN LEARNING_RATE ELSE FMul(Decayed(k - 1), DECAY)

InLoop == pc.at \in { "memset", "forward", "train", "decay" }

C7_State ==
    /\ epoch \in 0..EPOCHS
    /\ InLoop => epoch < EPOCHS /\ learning_rate = Decayed(epoch \div DECAY_EVERY)
    /\ pc.at \in { "predict", "done" } =>
          /\ epoch = EPOCHS
          /\ learning_rate = Decayed(EPOCHS \div DECAY_EVERY)
          /\ ntrain = EPOCHS * Len(Examples)
    /\ pc.at = "forward" => h_state = Zeros
    /\ pc.at \in { "memset", "forward" } =>
          /\ nforward = epoch * Len(Examples) + pc.ex - 1
          /\ ntrain = nforward
    /\ pc.at = "train" =>
          /\ nforward = epoch * Len(Examples) + pc.ex
          /\ ntrain = nforward - 1
          /\ last.op = "forward" /\ last.str = Examples[pc.ex].str
    /\ pc.at = "decay" =>
          /\ nforward = (epoch + 1) * Len(Examples)
          /\ ntrain = nforward
    /\ (InLoop /\ last.op = "readout_train") =>
          last.lr = Decayed(epoch \div DECAY_EVERY)

C7_Schedule == [](C7_State) /\ <>(pc.at = "done")

C7_Witness ==
    /\ pc.at = "done"
    /\ epoch = EPOCHS
    /\ ntrain = EPOCHS * Len(Examples)
    /\ learning_rate < LEARNING_RATE
    /\ learning_rate = Decayed(5)

(***************************************************************************)
(* C8.  Probability simplex.  As claimed: for any state vector and any     *)
(* readout weights, readout_forward returns OUT_DIM values, none negative, *)
(* that sum to 1 within the tolerance (here the OUT_DIM roundings of the   *)
(* divisions).                                                             *)
(***************************************************************************)
Tolerance == OUT_DIM

RECURSIVE Total(_, _)
Total(v, i) == IF i < OUT_DIM THEN v[i] + Total(v, i + 1) ELSE 0

OnSimplex(v) ==
    /\ \A i \in Out : IsFinite(v[i]) /\ v[i] >= 0
    /\ Abs(Total(v, 0) - ToFloat(1)) <= Tolerance

C8_Simplex == last.op = "readout_forward" => OnSimplex(out_probs)

(***************************************************************************)
(* C8, amended.  Whenever every exponential expf(z_i) is finite and their  *)
(* sum is finite and not zero, readout_forward returns OUT_DIM values,     *)
(* none negative, that sum to 1 within the tolerance.                      *)
(***************************************************************************)
ExpsInRange(rw, h) ==
    LET e == exps(rw, h)
    IN  /\ \A i \in Out : IsFinite(e[i])
        /\ IsFinite(SumExp(e, 0, 0))
        /\ SumExp(e, 0, 0) > 0

C8_SimplexInRange ==
    (last.op = "readout_forward" /\ ExpsInRange(readout_weights, h_state))
        => OnSimplex(out_probs)

C8_Witness ==
    /\ last.op = "readout_forward"
    /\ ExpsInRange(readout_weights, h_state)
    /\ \A i \in Out : out_probs[i] > 0
    /\ \E i, j \in Out : out_probs[i] # out_probs[j]

(***************************************************************************)
(* C9.  Concurrent forward passes, each with its own zeroed buffer and the *)
(* noise held fixed, do not interfere: a pass that has ended holds the     *)
(* state it reaches when it runs alone.                                    *)
(***************************************************************************)
Alone(p) ==
    trie_reservoir_forward([memset(Mem) EXCEPT !.calls = << >>], root,
                           thr[p].input).h_state

C9_NoInterference ==
    \A p \in Passes : thr[p].at = "done" => thr[p].h = Alone(p)

====
